---- MODULE Spec2Model ----
(***************************************************************************)
(* State-machine model of the sample blog application (app/main.py):       *)
(* first-request seeding, login / logout / account with the flask-login    *)
(* access gate, post creation, and the paginated index and archive         *)
(* listings.                                                               *)
(*                                                                         *)
(* A URL is a sequence of strings: its head is the path and its tail is    *)
(* the value of its `next` query argument (itself a URL), so               *)
(* <<"/auth/login/", "/account/">> is /auth/login/?next=/account/ and      *)
(* <<>> is "no value".  A timestamp is a number of ticks since 00:00 on    *)
(* 1 January 2024, TicksPerMonth ticks to a month, tick 0 of a month being *)
(* 00:00 on its first day.                                                 *)
(***************************************************************************)
EXTENDS Integers, Sequences, FiniteSets, TLC

VARIABLES
    users,       \* table user: rows [email, password] (class User)
    categories,  \* table category: rows [name] (class Category)
    posts,       \* table post: rows [pub_date, category_id] (class Post)
    boot,        \* each worker's position in initialize_data
    session,     \* each client's session: the bound user id, 0 for none
    carried,     \* each client's `next` destination from its last gate redirect
    now,         \* datetime.utcnow()
    resp         \* the response in flight to a client

vars == <<users, categories, posts, boot, session, carried, now, resp>>

(***************************************************************************)
(* Bounds of the model.                                                    *)
(***************************************************************************)
MaxPosts == 2
MaxArchivePosts == 3
MaxListPosts == 26
TicksPerMonth == 2
MaxTicks == 4
ListTicks == 1

PerPage == 10

Workers == {"w1", "w2"}
Clients == {"c1", "c2"}

DefaultEmail == "blogger@sample.com"
DefaultPassword == "password"
OtherEmail == "alice@sample.com"
OtherPassword == "secret"
Emails == {"", DefaultEmail, OtherEmail, "nobody@sample.com"}
Passwords == {"", " ", DefaultPassword, OtherPassword}
Titles == {"", "Hello"}
BodyLengths == {9, 10}

IndexPath == "/"
LoginPath == "/auth/login/"
LogoutPath == "/logout/"
AccountPath == "/account/"
External == "http://evil.example/"
LocalPaths == {IndexPath, LoginPath, LogoutPath, AccountPath, "/create", "/about_me"}
NextArgs == {<<>>, <<"">>, <<AccountPath>>, <<External>>}

RequiredMsg == "This field is required."
InvalidMsg == "Invalid email and/or password specified."

Anonymous == 0
NoResp == [op |-> "none"]

(***************************************************************************)
(* Persistence layer: tables are sequences of rows, a row's id is its      *)
(* position.                                                               *)
(***************************************************************************)
UsersByEmail(email) == {i \in 1..Len(users) : users[i].email = email}

CategoriesByName(name) == {i \in 1..Len(categories) : categories[i].name = name}

\* Query.one_or_none(): the row, 0 for no row, -1 when several rows match
\* (MultipleResultsFound).
one_or_none(ids) ==
    IF ids = {} THEN 0
    ELSE IF Cardinality(ids) = 1 THEN CHOOSE i \in ids : TRUE
    ELSE -1

\* An INSERT into user without the unique index on email.
InsertUserNoUnique(email, password) ==
    [ok |-> TRUE, users |-> Append(users, [email |-> email, password |-> password])]

\* An INSERT into user: the unique index on email rejects a duplicate
\* (IntegrityError) and leaves the table as it was.
InsertUser(email, password) ==
    IF UsersByEmail(email) # {}
    THEN [ok |-> FALSE, users |-> users]
    ELSE [ok |-> TRUE, users |-> Append(users, [email |-> email, password |-> password])]

load_user(user_id) ==
    IF user_id # 0 /\ user_id \in 1..Len(users) THEN user_id ELSE Anonymous

check_password(user_id, password) == users[user_id].password = password

\* flask_login.current_user for the client's session.
current_user(c) == load_user(session[c])

\* flask_login.logout_user that leaves the session as it is.
logout_user_keep(c) == session

login_user(c, user_id) == [session EXCEPT ![c] = user_id]

logout_user(c) == [session EXCEPT ![c] = 0]

(***************************************************************************)
(* Forms.                                                                  *)
(***************************************************************************)
Strip(s) == IF s \in {"", " "} THEN "" ELSE s

\* wtforms DataRequired: the field's errors.
DataRequired(field, data) ==
    IF Strip(data) = "" THEN {<<field, RequiredMsg>>} ELSE {}

\* LoginForm.validate that looks the user up before the presence check.
LoginForm_validate_eager(email, password) ==
    LET rv == DataRequired("email", email) \cup DataRequired("password", password)
        user == one_or_none(UsersByEmail(email))
    IN  IF rv # {}
        THEN [ok |-> FALSE, errors |-> rv, user |-> 0, lookups |-> 1]
        ELSE IF user > 0 /\ check_password(user, password)
        THEN [ok |-> TRUE, errors |-> {}, user |-> user, lookups |-> 1]
        ELSE [ok |-> FALSE, errors |-> {<<"password", InvalidMsg>>}, user |-> 0,
              lookups |-> 1]

\* LoginForm.validate that tells an unknown email from a wrong password.
LoginForm_validate_disclosing(email, password) ==
    LET rv == DataRequired("email", email) \cup DataRequired("password", password)
        user == one_or_none(UsersByEmail(email))
    IN  IF rv # {}
        THEN [ok |-> FALSE, errors |-> rv, user |-> 0, lookups |-> 0]
        ELSE IF user > 0 /\ check_password(user, password)
        THEN [ok |-> TRUE, errors |-> {}, user |-> user, lookups |-> 1]
        ELSE IF user > 0
        THEN [ok |-> FALSE, errors |-> {<<"password", InvalidMsg>>}, user |-> 0,
              lookups |-> 1]
        ELSE [ok |-> FALSE, errors |-> {<<"email", InvalidMsg>>}, user |-> 0,
              lookups |-> 1]

\* LoginForm.validate (the second definition, which replaces the first):
\* ok, the field errors, the user carried by the form, and the number of
\* user lookups made.
LoginForm_validate(email, password) ==
    LET rv == DataRequired("email", email) \cup DataRequired("password", password)
        user == one_or_none(UsersByEmail(email))
    IN  IF rv # {}
        THEN [ok |-> FALSE, errors |-> rv, user |-> 0, lookups |-> 0]
        ELSE IF user > 0 /\ check_password(user, password)
        THEN [ok |-> TRUE, errors |-> {}, user |-> user, lookups |-> 1]
        ELSE [ok |-> FALSE, errors |-> {<<"password", InvalidMsg>>}, user |-> 0,
              lookups |-> 1]

\* CreateForm.validate: title is required, body has at least 10 characters.
CreateForm_validate(title, bodyLen) ==
    DataRequired("title", title) = {} /\ bodyLen >= 10

(***************************************************************************)
(* Request handlers.  A handler runs in a worker that has completed its    *)
(* first-request hook, and leaves its response in resp until the client    *)
(* has received it.                                                        *)
(***************************************************************************)
Serving == resp = NoResp /\ \E w \in Workers : boot[w] = "done"

\* request.args.get('next') or url_for('index')
NextOrIndex(next) == IF next = <<>> \/ next = <<"">> THEN <<IndexPath>> ELSE next

\* initialize_data, line 209: the query for the default user.
initialize_data_query(w) ==
    /\ boot[w] = "idle"
    /\ boot' = [boot EXCEPT ![w] =
                  IF one_or_none(UsersByEmail(DefaultEmail)) = 0 THEN "absent" ELSE "done"]
    /\ UNCHANGED <<users, categories, posts, session, carried, now, resp>>

\* initialize_data, lines 211-214: the user is added and committed; the
\* Category object is constructed but never added to the session.  A
\* commit that fails leaves the hook to run again on the next request.
initialize_data_commit(w) ==
    /\ boot[w] = "absent"
    /\ LET ins == InsertUser(DefaultEmail, DefaultPassword)
       IN  /\ users' = ins.users
           /\ boot' = [boot EXCEPT ![w] = IF ins.ok THEN "done" ELSE "idle"]
    /\ UNCHANGED <<categories, posts, session, carried, now, resp>>

\* login: validate_on_submit validates a POST only; a GET renders the
\* empty form.
login(c) ==
    /\ Serving
    /\ \/ /\ session' = session
          /\ resp' = [op |-> "login", method |-> "GET", client |-> c,
                      kind |-> "render", target |-> <<>>, next |-> <<>>,
                      email |-> "", password |-> "", before |-> current_user(c),
                      form |-> [ok |-> FALSE, errors |-> {}, user |-> 0,
                                lookups |-> 0]]
       \/ \E email \in Emails, password \in Passwords,
             next \in NextArgs \cup {carried[c]} :
            LET form == LoginForm_validate(email, password)
                before == current_user(c)
            IN  IF form.ok
                THEN /\ session' = login_user(c, form.user)
                     /\ resp' = [op |-> "login", method |-> "POST", client |-> c,
                                 kind |-> "redirect",
                                 target |-> NextOrIndex(next), next |-> next,
                                 email |-> email, password |-> password,
                                 before |-> before, form |-> form]
                ELSE /\ session' = session
                     /\ resp' = [op |-> "login", method |-> "POST", client |-> c,
                                 kind |-> "render", target |-> <<>>, next |-> <<>>,
                                 email |-> email, password |-> password,
                                 before |-> before, form |-> form]
    /\ UNCHANGED <<users, categories, posts, boot, carried, now>>

\* login_required: an unauthenticated caller is redirected to the login
\* view with the requested URL as `next`; the view function is not called.
unauthorized(op, c, url) ==
    [op |-> op, client |-> c, kind |-> "redirect", target |-> <<LoginPath>> \o url,
     url |-> url, before |-> Anonymous, executed |-> FALSE]

logout(c) ==
    /\ Serving
    /\ \E next \in NextArgs :
         LET url == <<LogoutPath>> \o next
             before == current_user(c)
         IN  IF before = Anonymous
             THEN /\ session' = session
                  /\ resp' = unauthorized("logout", c, url)
             ELSE /\ session' = logout_user(c)
                  /\ resp' = [op |-> "logout", client |-> c, kind |-> "redirect",
                              target |-> NextOrIndex(next), url |-> url,
                              before |-> before, executed |-> TRUE]
    /\ UNCHANGED <<users, categories, posts, boot, carried, now>>

account(c) ==
    /\ Serving
    /\ LET url == <<AccountPath>>
           before == current_user(c)
       IN  resp' = IF before = Anonymous
                   THEN unauthorized("account", c, url)
                   ELSE [op |-> "account", client |-> c, kind |-> "render",
                         target |-> <<>>, url |-> url, before |-> before,
                         executed |-> TRUE]
    /\ UNCHANGED <<users, categories, posts, boot, session, carried, now>>

\* create: the post gets the category named 'All', or none when the
\* lookup finds no such category, and the current time as its pub_date;
\* a form that does not validate (as a GET) renders the page.
create(cap) ==
    /\ Serving
    /\ Len(posts) < cap
    /\ \E title \in Titles, bodyLen \in BodyLengths :
         IF CreateForm_validate(title, bodyLen)
         THEN LET category == one_or_none(CategoriesByName("All"))
              IN  /\ posts' = Append(posts, [pub_date |-> now, category_id |-> category])
                  /\ resp' = [op |-> "create", kind |-> "redirect",
                              target |-> <<IndexPath>>, created |-> TRUE]
         ELSE /\ posts' = posts
              /\ resp' = [op |-> "create", kind |-> "render", target |-> <<>>,
                          created |-> FALSE]
    /\ UNCHANGED <<users, categories, boot, session, carried, now>>

\* The client receives the response; a redirect to the login view leaves
\* it holding the destination carried in `next`, a successful login uses
\* it up.
Receive ==
    /\ resp # NoResp
    /\ resp' = NoResp
    /\ carried' =
         IF resp.op \in {"logout", "account"} /\ ~resp.executed
         THEN [carried EXCEPT ![resp.client] = Tail(resp.target)]
         ELSE IF resp.op = "login" /\ resp.form.ok
         THEN [carried EXCEPT ![resp.client] = <<>>]
         ELSE carried
    /\ UNCHANGED <<users, categories, posts, boot, session, now>>

(***************************************************************************)
(* Listings: request.args.get('page', 1, type=int) and                     *)
(* Query.order_by(pub_date.desc()).paginate(page, 10, False).              *)
(***************************************************************************)
DigitChars == <<"0", "1", "2", "3", "4", "5", "6", "7", "8", "9">>

IsDigit(ch) == \E i \in 1..10 : DigitChars[i] = ch

DigitVal(ch) == (CHOOSE i \in 1..10 : DigitChars[i] = ch) - 1

RECURSIVE NatVal(_)
NatVal(s) ==
    IF s = <<>> THEN 0
    ELSE NatVal(SubSeq(s, 1, Len(s) - 1)) * 10 + DigitVal(s[Len(s)])

\* int(text): an optional sign and at least one digit, ValueError otherwise.
int(s) ==
    LET signed == s # <<>> /\ s[1] \in {"-", "+"}
        digits == IF signed THEN Tail(s) ELSE s
    IN  IF digits = <<>> \/ \E i \in 1..Len(digits) : ~IsDigit(digits[i])
        THEN [ok |-> FALSE, val |-> 0]
        ELSE [ok |-> TRUE,
              val |-> IF signed /\ s[1] = "-" THEN 0 - NatVal(digits) ELSE NatVal(digits)]

\* request.args.get('page', 1, type=int): the default when the argument
\* is absent or the conversion raises ValueError.
args_get_page(arg) ==
    IF arg = <<>> \/ ~int(arg).ok THEN 1 ELSE int(arg).val

\* datetime(year, month, 1)
datetime(year, month) == ((year - 2024) * 12 + (month - 1)) * TicksPerMonth

\* The upper end of the archive range with December rolling over to
\* January of the next year.
maximum_month_rollover(year, month) ==
    IF month = 12 THEN datetime(year + 1, 1) ELSE datetime(year, month + 1)

\* archive, lines 184-187.
maximum_month(year, month) ==
    IF month = 12 THEN datetime(year, month) ELSE datetime(year, month + 1)

\* order_by(pub_date.asc())
Before_ascending(i, j, tie) ==
    \/ posts[i].pub_date < posts[j].pub_date
    \/ /\ posts[i].pub_date = posts[j].pub_date
       /\ IF tie = "asc" THEN i < j ELSE i > j

\* order_by(pub_date.desc()): i comes before j; rows with equal pub_date
\* come in either id order, as the database chooses (tie).
Before(i, j, tie) ==
    \/ posts[i].pub_date > posts[j].pub_date
    \/ /\ posts[i].pub_date = posts[j].pub_date
       /\ IF tie = "asc" THEN i < j ELSE i > j

\* The ordered rows with row i put in its place.
RECURSIVE InsertRow(_, _, _)
InsertRow(rows, i, tie) ==
    IF rows = <<>> THEN <<i>>
    ELSE IF Before(i, Head(rows), tie) THEN <<i>> \o rows
    ELSE <<Head(rows)>> \o InsertRow(Tail(rows), i, tie)

\* The rows of S among the first k stored rows, in the order of Before.
RECURSIVE Ordered(_, _, _)
Ordered(S, tie, k) ==
    IF k = 0 THEN <<>>
    ELSE IF k \in S THEN InsertRow(Ordered(S, tie, k - 1), k, tie)
    ELSE Ordered(S, tie, k - 1)

\* limit(limit).offset(offset).all() of the ordered rows S; an offset
\* below 0 skips no row.
LimitOffset(S, tie, offset, limit) ==
    LET skip == IF offset < 0 THEN 0 ELSE offset
    IN  IF S = {} THEN <<>>
        ELSE CHOOSE page \in
               {SubSeq(rows, skip + 1,
                       IF Len(rows) < skip + limit THEN Len(rows) ELSE skip + limit) :
                  rows \in {Ordered(S, tie, Len(posts))}} : TRUE

Ceil(a, b) == (a + b - 1) \div b

\* flask_sqlalchemy.Pagination of the page's items; 0 stands for a
\* prev_num / next_num of None.
Pagination(page, per_page, total, items) ==
    LET pages == Ceil(total, per_page)
        has_prev == page > 1
        has_next == page < pages
    IN  [items |-> items, page |-> page, total |-> total,
         has_prev |-> has_prev, has_next |-> has_next,
         prev_num |-> IF has_prev THEN page - 1 ELSE 0,
         next_num |-> IF has_next THEN page + 1 ELSE 0]

\* The count paginate passes on: the items' when the first page is not
\* full, the query's otherwise.
Total(S, page, per_page, items) ==
    IF page = 1 /\ Len(items) < per_page THEN Len(items) ELSE Cardinality(S)

\* paginate that leaves a page below 1 as it is.
paginate_noclamp(S, tie, page, per_page) ==
    CHOOSE p \in {Pagination(page, per_page, Total(S, page, per_page, items), items) :
                    items \in {LimitOffset(S, tie, (page - 1) * per_page, per_page)}} :
        TRUE

\* BaseQuery.paginate(page, per_page, error_out=False): a page below 1
\* becomes page 1.
paginate(S, tie, page0, per_page) ==
    LET page == IF page0 < 1 THEN 1 ELSE page0
    IN  CHOOSE p \in {Pagination(page, per_page, Total(S, page, per_page, items), items) :
                        items \in {LimitOffset(S, tie, (page - 1) * per_page, per_page)}} :
            TRUE

Years == 2024..2025
Months == 1..13
ListYears == {2024}
ListMonths == 11..12
PageArgs == {<<>>, <<"x">>, <<"0">>, <<"-", "1">>, <<"1">>, <<"2">>, <<"3">>, <<"4">>}
Ties == {"asc", "desc"}

\* The rendered listing: the page's items and the next / previous URLs.
Listing(op, about, endpoint, p) ==
    about @@ [op |-> op, kind |-> "render", items |-> p.items,
              has_next |-> p.has_next, has_prev |-> p.has_prev,
              next_url |-> IF p.has_next THEN endpoint \o <<p.next_num>> ELSE <<>>,
              prev_url |-> IF p.has_prev THEN endpoint \o <<p.prev_num>> ELSE <<>>]

index ==
    /\ Serving
    /\ \E arg \in PageArgs, tie \in Ties :
         \E p \in {paginate(1..Len(posts), tie, args_get_page(arg), PerPage)} :
            resp' = Listing("index", [arg |-> arg], <<"index">>, p)
    /\ UNCHANGED <<users, categories, posts, boot, session, carried, now>>

\* archive: datetime(year, month, 1) raises ValueError for a month that
\* is not 1..12, which fails the request.
archive(months, years) ==
    /\ Serving
    /\ \E month \in months, year \in years, arg \in PageArgs, tie \in Ties :
         IF month \notin 1..12
         THEN resp' = [op |-> "archive", kind |-> "fault", month |-> month,
                       year |-> year, arg |-> arg]
         ELSE LET minimum_month == datetime(year, month)
                  S == {i \in 1..Len(posts) :
                          /\ posts[i].pub_date > minimum_month
                          /\ posts[i].pub_date <= maximum_month(year, month)}
              IN  \E p \in {paginate(S, tie, args_get_page(arg), PerPage)} :
                     resp' = Listing("archive",
                                     [month |-> month, year |-> year, arg |-> arg],
                                     <<"archive", month, year>>, p)
    /\ UNCHANGED <<users, categories, posts, boot, session, carried, now>>

\* datetime.utcnow() advances between requests.
Tick(last) ==
    /\ resp = NoResp
    /\ now < last
    /\ now' = now + 1
    /\ UNCHANGED <<users, categories, posts, boot, session, carried, resp>>

(***************************************************************************)
(* Specification of the authentication side: the database holds either no  *)
(* user or one user other than the default one, and no worker has served   *)
(* a request yet.                                                          *)
(***************************************************************************)
StartTime == datetime(2024, 11)

Init ==
    /\ users \in {<<>>, <<[email |-> OtherEmail, password |-> OtherPassword]>>}
    /\ categories = <<>>
    /\ posts = <<>>
    /\ boot = [w \in Workers |-> "idle"]
    /\ session = [c \in Clients |-> 0]
    /\ carried = [c \in Clients |-> <<>>]
    /\ now = StartTime
    /\ resp = NoResp

Next ==
    \/ \E w \in Workers : initialize_data_query(w)
    \/ \E w \in Workers : initialize_data_commit(w)
    \/ \E c \in Clients : login(c)
    \/ \E c \in Clients : logout(c)
    \/ \E c \in Clients : account(c)
    \/ create(MaxPosts)
    \/ Receive

Spec == Init /\ [][Next]_vars

(***************************************************************************)
(* Specifications of the listings: the workers have run the first-request  *)
(* hook (the default user is stored, no category is), and posts are        *)
(* created as time passes.  The archive specification runs from            *)
(* 1 November 2024 with few posts, the list specification from             *)
(* 1 December 2024 with enough posts for three pages.                      *)
(***************************************************************************)
Seeded(start) ==
    /\ users = <<[email |-> DefaultEmail, password |-> DefaultPassword]>>
    /\ categories = <<>>
    /\ posts = <<>>
    /\ boot = [w \in Workers |-> "done"]
    /\ session = [c \in Clients |-> 0]
    /\ carried = [c \in Clients |-> <<>>]
    /\ now = start
    /\ resp = NoResp

ArchiveStart == datetime(2024, 11)

InitArchive == Seeded(ArchiveStart)

NextArchive ==
    \/ Tick(ArchiveStart + MaxTicks)
    \/ create(MaxArchivePosts)
    \/ index
    \/ archive(Months, Years)
    \/ Receive

SpecArchive == InitArchive /\ [][NextArchive]_vars

ListStart == datetime(2024, 12)

InitList == Seeded(ListStart)

NextList ==
    \/ Tick(ListStart + ListTicks)
    \/ create(MaxListPosts)
    \/ index
    \/ archive(ListMonths, ListYears)
    \/ Receive

SpecList == InitList /\ [][NextList]_vars

(***************************************************************************)
(* Properties of the listings.                                             *)
(***************************************************************************)
\* The page a listing response was asked for, and the posts its filter
\* selects.
AskedPage(r) == IF int(r.arg).ok THEN int(r.arg).val ELSE 1

Rendered(r, op) == r.op = op /\ r.kind = "render"

Selected(r) ==
    IF r.op = "index" THEN 1..Len(posts)
    ELSE {i \in 1..Len(posts) :
            /\ posts[i].pub_date > datetime(r.year, r.month)
            /\ posts[i].pub_date <= maximum_month(r.year, r.month)}

Newer(S, i) == Cardinality({j \in S : posts[j].pub_date > posts[i].pub_date})

NotOlder(S, i) == Cardinality({j \in S : posts[j].pub_date >= posts[i].pub_date})

PageLen(total, page) ==
    IF total - PerPage * (page - 1) <= 0 THEN 0
    ELSE IF total - PerPage * (page - 1) < PerPage THEN total - PerPage * (page - 1)
    ELSE PerPage

\* C5: for a page p >= 1 the unfiltered listing returns the posts ranked
\* 10*(p-1)+1 .. 10*p by descending pub_date, has_next holds exactly when
\* more than 10*p posts are stored, has_prev exactly when p > 1, a locator
\* is None exactly when its flag is false, and page 3 of 25 posts holds the
\* last 5 posts with has_next false.
C5_IndexPages ==
    (Rendered(resp, "index") /\ AskedPage(resp) >= 1) =>
        LET p == AskedPage(resp)
            n == Len(posts)
            items == resp.items
        IN  /\ Len(items) = PageLen(n, p)
            /\ \A k \in 1..Len(items) :
                 /\ items[k] \in 1..n
                 /\ Newer(1..n, items[k]) <= PerPage * (p - 1) + k - 1
                 /\ NotOlder(1..n, items[k]) >= PerPage * (p - 1) + k
            /\ \A k, l \in 1..Len(items) :
                 k < l => /\ items[k] # items[l]
                          /\ posts[items[k]].pub_date >= posts[items[l]].pub_date
            /\ resp.has_next = (n > PerPage * p)
            /\ resp.has_prev = (p > 1)
            /\ (resp.next_url = <<>>) = ~resp.has_next
            /\ (resp.prev_url = <<>>) = ~resp.has_prev
            /\ (n = 25 /\ p = 3) => (Len(items) = 5 /\ ~resp.has_next)

\* Page 3 of 25 posts of two different timestamps has been listed.
C5_Witness ==
    /\ Rendered(resp, "index")
    /\ resp.arg = <<"3">>
    /\ Len(posts) = 25
    /\ posts[1].pub_date # posts[25].pub_date
    /\ Len(resp.items) = 5
    /\ resp.prev_url = <<"index", 2>>

\* C6: the archive of month 12 of any year returns no items on any page,
\* whatever posts are stored.
C6_DecemberEmpty ==
    (resp.op = "archive" /\ resp.month = 12) =>
        (resp.kind = "render" /\ resp.items = <<>>)

\* The December 2024 archive has been listed while a post of 00:00 on
\* 1 December 2024 and a later December post are stored.
C6_Witness ==
    /\ Rendered(resp, "archive")
    /\ resp.month = 12 /\ resp.year = 2024
    /\ \E i, j \in 1..Len(posts) :
         /\ posts[i].pub_date = datetime(2024, 12)
         /\ posts[j].pub_date > datetime(2024, 12)
         /\ posts[j].pub_date < datetime(2025, 1)

\* C7: for a month 1..11 the first page of the archive holds exactly the
\* posts with start <= pub_date <= end, start being 00:00 on the first day
\* of the month and end 00:00 on the first day of the next month (the
\* stored posts fit one page).
C7_ClosedRange ==
    (Rendered(resp, "archive") /\ resp.month \in 1..11 /\ AskedPage(resp) = 1
       /\ Len(posts) <= PerPage) =>
        {resp.items[k] : k \in 1..Len(resp.items)} =
            {i \in 1..Len(posts) :
               /\ posts[i].pub_date >= datetime(resp.year, resp.month)
               /\ posts[i].pub_date <= datetime(resp.year, resp.month + 1)}

\* C8 as stated: a page <= 0 or beyond the last page yields no items and
\* has_next false without failing, and an absent or non-numeric page is
\* page 1.
C8_EmptyOutOfRange ==
    (resp.op = "index" \/ (resp.op = "archive" /\ resp.month \in 1..12)) =>
        LET total == Cardinality(Selected(resp))
            p == AskedPage(resp)
        IN  /\ resp.kind = "render"
            /\ (p <= 0 \/ PerPage * (p - 1) >= total) =>
                  (resp.items = <<>> /\ ~resp.has_next)
            /\ ~int(resp.arg).ok =>
                  (Len(resp.items) = PageLen(total, 1) /\ ~resp.has_prev)

\* C8 as amended: for the index and for an archive of a month 1..12, a
\* page <= 0 is served as page 1; a page beyond the last page yields no
\* items and has_next false; an absent or non-numeric page is page 1; the
\* request does not fail.
C8_ClampedPages ==
    (resp.op = "index" \/ (resp.op = "archive" /\ resp.month \in 1..12)) =>
        LET total == Cardinality(Selected(resp))
            p == AskedPage(resp)
        IN  /\ resp.kind = "render"
            /\ (p >= 1 /\ PerPage * (p - 1) >= total) =>
                  (resp.items = <<>> /\ ~resp.has_next)
            /\ (p <= 0 \/ ~int(resp.arg).ok) =>
                  /\ Len(resp.items) = PageLen(total, 1)
                  /\ resp.has_next = (total > PerPage)
                  /\ ~resp.has_prev
                  /\ \A k \in 1..Len(resp.items) :
                       Newer(Selected(resp), resp.items[k]) <= k - 1

\* An archive of more than 10 posts has been asked for page 0 and has
\* answered with its first 10 posts and a next page.
C8_Witness ==
    /\ Rendered(resp, "archive")
    /\ resp.arg = <<"0">>
    /\ Len(resp.items) = PerPage
    /\ resp.has_next

(***************************************************************************)
(* Properties of authentication, the access gate and the seeding.          *)
(***************************************************************************)
LoggedIn(r, c) == r.op = "login" /\ r.client = c /\ r.form.ok

LoggedOut(r, c) == r.op = "logout" /\ r.client = c /\ r.executed

\* C1: a client resolves to Anonymous until its first successful login;
\* right after a successful login as u it resolves to exactly u, whoever
\* was bound before; right after a logout it resolves to Anonymous; and
\* nothing else changes whom it resolves to.
C1_SessionLifecycle ==
    /\ \A c \in Clients : current_user(c) = Anonymous
    /\ [][\A c \in Clients :
            IF LoggedIn(resp', c) THEN current_user(c)' = resp'.form.user
            ELSE IF LoggedOut(resp', c) THEN current_user(c)' = Anonymous
            ELSE current_user(c)' = current_user(c)]_vars

\* A client bound to one user has logged in as another and resolves to
\* the other.
C1_Witness ==
    /\ resp.op = "login" /\ resp.form.ok
    /\ resp.before # Anonymous
    /\ resp.before # resp.form.user
    /\ current_user(resp.client) = resp.form.user

ValidDest(next) == next # <<>> /\ Head(next) \in LocalPaths

\* C2: logout or account from an Anonymous client is not executed and is
\* answered by a redirect to the login view carrying the requested URL;
\* a successful login redirects to the destination it carries, and to the
\* index when it carries none or an invalid one.
C2_GateAndReturn ==
    /\ (resp.op \in {"logout", "account"} /\ resp.before = Anonymous) =>
          /\ ~resp.executed
          /\ resp.kind = "redirect"
          /\ resp.target = <<LoginPath>> \o resp.url
    /\ (resp.op = "login" /\ resp.form.ok) =>
          /\ resp.kind = "redirect"
          /\ resp.target = IF ValidDest(resp.next) THEN resp.next ELSE <<IndexPath>>

\* C3: a login with an empty email or an empty password fails with a
\* required-field error on the empty field, makes no user lookup and binds
\* nobody; a lookup is made only when both fields are present.
C3_PresenceBeforeLookup ==
    (resp.op = "login" /\ resp.method = "POST") =>
        /\ (resp.email = "" \/ resp.password = "") =>
              /\ ~resp.form.ok
              /\ resp.form.lookups = 0
              /\ resp.email = "" => <<"email", RequiredMsg>> \in resp.form.errors
              /\ resp.password = "" => <<"password", RequiredMsg>> \in resp.form.errors
              /\ resp.kind = "render"
              /\ current_user(resp.client) = resp.before
        /\ resp.form.lookups > 0 => (resp.email # "" /\ resp.password # "")

\* A login with the stored default email and an empty password has been
\* answered.
C3_Witness ==
    /\ resp.op = "login" /\ resp.method = "POST"
    /\ resp.email = DefaultEmail /\ resp.password = ""
    /\ UsersByEmail(DefaultEmail) # {}
    /\ ~resp.form.ok

C9_AllCategory ==
    /\ (\E w \in Workers : boot[w] = "done") => CategoriesByName("All") # {}
    /\ \A i \in 1..Len(posts) : posts[i].category_id \in CategoriesByName("All")

DefaultUsers == Cardinality(UsersByEmail(DefaultEmail))

\* C10: the store never holds two users with the default email; it holds
\* exactly one once a seeding run has completed and after every commit a
\* run attempts, also when two workers' runs interleave; and a run that
\* finds the user present changes nothing in the store.
C10_SeedOnce ==
    /\ [](/\ DefaultUsers <= 1
          /\ (\E w \in Workers : boot[w] = "done") => DefaultUsers = 1)
    /\ [][\A w \in Workers :
            /\ (boot[w] = "absent" /\ boot'[w] # "absent") => DefaultUsers' = 1
            /\ (boot[w] = "idle" /\ boot'[w] = "done") =>
                  /\ DefaultUsers = 1
                  /\ <<users, categories, posts>>' = <<users, categories, posts>>]_vars

\* One worker has committed the default user while another, having seen
\* no such user, is about to commit it too.
C10_Witness ==
    /\ DefaultUsers = 1
    /\ \E v, w \in Workers : boot[v] = "done" /\ boot[w] = "absent"

====
